---------------------------- MODULE Spec2Model ----------------------------
(***************************************************************************)
(* Model of src/notebook_v1.py: the object-oriented notebook toolbox.      *)
(*                                                                         *)
(* A client holds a raw ipynb dictionary (also stored in a sample file),   *)
(* builds a Notebook from it and then applies one of the operations of     *)
(* the module to it: iteration, Serializer.serialize, Serializer.to_file,  *)
(* PyPercentSerializer.to_py_percent, Outliner.outline.                    *)
(*                                                                         *)
(* Representation                                                          *)
(*   - a Python dict is a TLA+ record / function whose DOMAIN is the set   *)
(*     of keys that are present;                                           *)
(*   - a Python str that the code indexes (the version) is a sequence of   *)
(*     one-character strings; other strs are TLA+ strings;                 *)
(*   - the value of nbformat / nbformat_minor is a JSON scalar, JInt(n) or *)
(*     JStr(s);                                                            *)
(*   - the outcome of a call is [exc, val]: exc names the exception that   *)
(*     was raised ("none" when the call returned) and val is <<v>> for a   *)
(*     returned v and << >> when the call raised;                          *)
(*   - a character the TLA+ lexer rejects is written as "{U+xxxx}".        *)
(***************************************************************************)
EXTENDS Integers, Sequences, FiniteSets, TLC

VARIABLES
    ipynb,     \* the raw notebook dictionary the client starts from
    fs,        \* the file system: path -> << >> (no file) or <<json dict>>
    nb,        \* the client's Notebook: << >> or <<notebook>>
    op,        \* the last operation the client performed
    path,      \* the path argument of that operation (NoPath when none)
    exc,       \* the exception that operation raised, "none" when it returned
    iterated,  \* the cells yielded by iterating the notebook
    ser,       \* the dict returned by Serializer.serialize: << >> or <<dict>>
    nb2,       \* the Notebook built from ser or read back from a file
    ppArg,     \* the dict to_py_percent handed to to_percent: << >> or <<dict>>
    text       \* the str returned by to_py_percent or outline: << >> or <<str>>

vars == <<ipynb, fs, nb, op, path, exc, iterated, ser, nb2, ppArg, text>>

----------------------------------------------------------------------------
(* Bounds and input domains                                                *)

MaxCells == 2

InPath  == "samples/in.ipynb"
OutPath == "samples/out.ipynb"
NoPath  == ""
Paths   == {InPath, OutPath}

----------------------------------------------------------------------------
(* Outcomes of calls                                                       *)

Return(v) == [exc |-> "none", val |-> <<v>>]
Raise(e)  == [exc |-> e, val |-> << >>]

----------------------------------------------------------------------------
(* Python str / int conversions over sequences of characters               *)

Digits == <<"0", "1", "2", "3", "4", "5", "6", "7", "8", "9">>

IsDigit(c) == \E d \in 1..10 : Digits[d] = c

DigitVal(c) == (CHOOSE d \in 1..10 : Digits[d] = c) - 1

RECURSIVE NatToStr(_)
NatToStr(n) ==
    IF n < 10 THEN <<Digits[n + 1]>>
    ELSE NatToStr(n \div 10) \o <<Digits[(n % 10) + 1]>>

\* str(n) for a Python int
IntToStr(n) == IF n < 0 THEN <<"-">> \o NatToStr(-n) ELSE NatToStr(n)

RECURSIVE NatOf(_)
NatOf(s) ==
    IF Len(s) = 0 THEN 0
    ELSE NatOf(SubSeq(s, 1, Len(s) - 1)) * 10 + DigitVal(s[Len(s)])

\* int(s) for a Python str: an optional sign followed by decimal digits
int(s) ==
    LET signed == Len(s) > 0 /\ s[1] \in {"-", "+"}
        body   == IF signed THEN Tail(s) ELSE s
    IN  IF Len(body) = 0 \/ \E i \in 1..Len(body) : ~IsDigit(body[i])
        THEN Raise("ValueError")
        ELSE Return(IF signed /\ s[1] = "-" THEN -NatOf(body) ELSE NatOf(body))

RECURSIVE Concat(_)
Concat(parts) ==
    IF Len(parts) = 0 THEN "" ELSE Head(parts) \o Concat(Tail(parts))

----------------------------------------------------------------------------
(* JSON scalars                                                            *)

JInt(n) == [tag |-> "int", n |-> n, s |-> << >>]
JStr(s) == [tag |-> "str", n |-> 0, s |-> s]

\* the text an f-string substitutes for a JSON scalar
str(v) == IF v.tag = "int" THEN IntToStr(v.n) ELSE v.s

EmptyDict == {}
EmptyList == << >>


----------------------------------------------------------------------------
(* Raw inputs                                                              *)

Src1 == <<"print(1)">>
Src2 == <<"a = 1\n", "b = 2">>
Src3 == <<"Hello world!\n", "============\n", "Print {U+0060}Hello world!{U+0060}:">>

\* a cell dict carrying every key a cell dict can carry
FullCell(t, i, s) ==
    [cell_type |-> t, id |-> i, source |-> s, execution_count |-> 1,
     metadata |-> {<<"tags", "x">>}, outputs |-> <<"out">>]

Without(d, keys) == [k \in (DOMAIN d) \ keys |-> d[k]]

CellTypes == {"code", "markdown", "raw"}

RawCells ==
    {FullCell(t, "a", Src1) : t \in CellTypes}
    \cup {FullCell("code", "b", Src2),
          Without(FullCell("markdown", "b", Src3), {"execution_count", "outputs"}),
          Without(FullCell("code", "c", Src3), {"metadata", "outputs"})}
    \cup {Without(FullCell(t, "a", Src1), {"id"}) : t \in CellTypes}
    \cup {Without(FullCell(t, "a", Src1), {"source"}) : t \in CellTypes}
    \cup {Without(FullCell(t, "a", Src1), {"execution_count"}) : t \in {"code", "raw"}}
    \cup {Without(FullCell("code", "a", Src1), {"cell_type"})}

NbformatValues      == {JInt(4), JInt(10), JInt(-1), JStr(<<"4", ".", "5">>)}
NbformatMinorValues == {JInt(5), JInt(12)}

SeqsUpTo(S, n) == UNION {[1..k -> S] : k \in 0..n}

RawNotebooks ==
    {[cells |-> cs, metadata |-> {<<"kernelspec", "python3">>},
      nbformat |-> a, nbformat_minor |-> b] :
        cs \in SeqsUpTo(RawCells, MaxCells),
        a \in NbformatValues, b \in NbformatMinorValues}

\* samples/hello-world.ipynb
HelloWorld ==
    [cells |-> <<
        [cell_type |-> "markdown", id |-> "a9541506", metadata |-> {},
         source |-> Src3],
        [cell_type |-> "code", execution_count |-> 1, id |-> "b777420a",
         metadata |-> {}, outputs |-> <<"Hello world!\n">>,
         source |-> <<"print(\"Hello world!\")">>],
        [cell_type |-> "markdown", id |-> "a23ab5ac", metadata |-> {},
         source |-> <<"Goodbye! {U+1F44B}">>] >>,
     metadata |-> {<<"kernelspec", "python3">>},
     nbformat |-> JInt(4), nbformat_minor |-> JInt(5)]

----------------------------------------------------------------------------
(* notebook_v0 helpers used by the loader                                  *)

get_cells(d) == d.cells

get_format_version(d) == str(d.nbformat) \o <<".">> \o str(d.nbformat_minor)

load_ipynb(files, filename) ==
    IF files[filename] = << >> THEN Raise("FileNotFoundError")
    ELSE Return(files[filename][1])

----------------------------------------------------------------------------
(* The cell classes and the loader                                         *)

clean_cells(d) ==
    LET cells == get_cells(d)
    IN  [k \in 1..Len(cells) |->
            [key \in {x \in DOMAIN cells[k] : x # "metadata" /\ x # "outputs"}
                |-> cells[k][key]]]

\* CodeCell.__init__ raises KeyError when one of the keys it reads is absent
CodeCellRaises(d) == ~({"id", "source", "execution_count"} \subseteq DOMAIN d)

CodeCell(d) ==
    [class |-> "CodeCell", id |-> d["id"], source |-> d["source"],
     execution_count |-> d["execution_count"]]

MarkdownCellRaises(d) == ~({"id", "source"} \subseteq DOMAIN d)

\* variant of MarkdownCell: the execution_count of the dict is copied too
MarkdownCell_keeps_count(d) ==
    IF "execution_count" \in DOMAIN d
    THEN [class |-> "MarkdownCell", id |-> d["id"], source |-> d["source"],
          execution_count |-> d["execution_count"]]
    ELSE [class |-> "MarkdownCell", id |-> d["id"], source |-> d["source"]]

MarkdownCell(d) ==
    [class |-> "MarkdownCell", id |-> d["id"], source |-> d["source"]]

\* variant of cells_conv_step: a cell whose constructor raises is dropped
cells_conv_step_drops_incomplete(cell, C) ==
    IF "cell_type" \notin DOMAIN cell THEN Raise("KeyError")
    ELSE IF cell["cell_type"] = "markdown" /\ ~MarkdownCellRaises(cell)
         THEN Return(Append(C, MarkdownCell(cell)))
    ELSE IF cell["cell_type"] = "code" /\ ~CodeCellRaises(cell)
         THEN Return(Append(C, CodeCell(cell)))
    ELSE Return(C)

\* variant of cells_conv_step: the new cell is put at the front of the list
cells_conv_step_prepends(cell, C) ==
    IF "cell_type" \notin DOMAIN cell THEN Raise("KeyError")
    ELSE IF cell["cell_type"] = "markdown"
         THEN IF MarkdownCellRaises(cell) THEN Raise("KeyError")
              ELSE Return(<<MarkdownCell(cell)>> \o C)
    ELSE IF cell["cell_type"] = "code"
         THEN IF CodeCellRaises(cell) THEN Raise("KeyError")
              ELSE Return(<<CodeCell(cell)>> \o C)
    ELSE Return(C)

\* variant of cells_conv_step: the second if is an else, so that a cell of
\* any other type is built as a CodeCell
cells_conv_step_else_code(cell, C) ==
    IF "cell_type" \notin DOMAIN cell THEN Raise("KeyError")
    ELSE IF cell["cell_type"] = "markdown"
         THEN IF MarkdownCellRaises(cell) THEN Raise("KeyError")
              ELSE Return(Append(C, MarkdownCell(cell)))
    ELSE IF CodeCellRaises(cell) THEN Raise("KeyError")
         ELSE Return(Append(C, CodeCell(cell)))

\* one pass of the loop body of cells_conv: the two if statements in turn
cells_conv_step(cell, C) ==
    IF "cell_type" \notin DOMAIN cell THEN Raise("KeyError")
    ELSE
      LET first ==
            IF cell["cell_type"] = "markdown"
            THEN IF MarkdownCellRaises(cell) THEN Raise("KeyError")
                 ELSE Return(Append(C, MarkdownCell(cell)))
            ELSE Return(C)
      IN  IF first.exc # "none" THEN first
          ELSE IF cell["cell_type"] = "code"
               THEN IF CodeCellRaises(cell) THEN Raise("KeyError")
                    ELSE Return(Append(first.val[1], CodeCell(cell)))
               ELSE first

RECURSIVE cells_conv_loop(_, _, _)
cells_conv_loop(cells, k, C) ==
    IF k > Len(cells) THEN Return(C)
    ELSE LET r == cells_conv_step(cells[k], C)
         IN  IF r.exc # "none" THEN r
             ELSE cells_conv_loop(cells, k + 1, r.val[1])

cells_conv(d) == cells_conv_loop(clean_cells(d), 1, << >>)

\* Notebook.__init__
Notebook(d) ==
    LET version == get_format_version(d)
        cells   == cells_conv(d)
    IN  IF cells.exc # "none" THEN Raise(cells.exc)
        ELSE Return([version |-> version, cells |-> cells.val[1]])

\* Notebook.from_file
from_file(files, filename) ==
    LET loaded == load_ipynb(files, filename)
    IN  IF loaded.exc # "none" THEN Raise(loaded.exc)
        ELSE Notebook(loaded.val[1])

\* Notebook.__iter__ driven by a for loop: the cells in the order yielded
iter(notebook) == [k \in 1..Len(notebook.cells) |-> notebook.cells[k]]

----------------------------------------------------------------------------
(* Serializer                                                              *)

\* the body of the for loop of Serializer.serialize
serialize_cell(cell) ==
    IF cell.class = "MarkdownCell"
    THEN [cell_type |-> "markdown", id |-> cell.id, metadata |-> EmptyDict,
          source |-> cell.source]
    ELSE [cell_type |-> "code", execution_count |-> cell.execution_count,
          id |-> cell.id, metadata |-> EmptyDict, outputs |-> EmptyList,
          source |-> cell.source]

\* Serializer.serialize: the result of v.split('.') is dropped, and the two
\* numbers are read from the first and the last character of the version
serialize(nb0) ==
    LET cells == [k \in 1..Len(nb0.cells) |-> serialize_cell(nb0.cells[k])]
        v     == nb0.version
    IN  IF Len(v) = 0 THEN Raise("IndexError")
        ELSE LET first == int(<<v[1]>>)
                 last  == int(<<v[Len(v)]>>)
             IN  IF first.exc # "none" THEN Raise(first.exc)
                 ELSE IF last.exc # "none" THEN Raise(last.exc)
                 ELSE Return([cells |-> cells, metadata |-> EmptyDict,
                              nbformat |-> JInt(first.val[1]),
                              nbformat_minor |-> JInt(last.val[1])])

\* Serializer.to_file: the body is a bare pass statement, no file is written
to_file(files, notebook, filename) == [exc |-> "none", files |-> files]

----------------------------------------------------------------------------
(* PyPercentSerializer                                                     *)

\* variant of to_py_percent_cell: a code cell gets no outputs key
to_py_percent_cell_no_outputs(cell) ==
    IF cell.class = "MarkdownCell"
    THEN [cell_type |-> "markdown", id |-> cell.id, metadata |-> EmptyDict,
          source |-> cell.source]
    ELSE [cell_type |-> "code", execution_count |-> cell.execution_count,
          id |-> cell.id, metadata |-> EmptyDict, source |-> cell.source]

\* the body of the for loop of PyPercentSerializer.to_py_percent
to_py_percent_cell(cell) ==
    IF cell.class = "MarkdownCell"
    THEN [cell_type |-> "markdown", id |-> cell.id, metadata |-> EmptyDict,
          source |-> cell.source]
    ELSE [cell_type |-> "code", execution_count |-> cell.execution_count,
          id |-> cell.id, metadata |-> EmptyDict, outputs |-> EmptyList,
          source |-> cell.source]

\* the dict PyPercentSerializer.to_py_percent builds before it calls to_percent
to_py_percent_dict(nb0) ==
    LET cells == [k \in 1..Len(nb0.cells) |-> to_py_percent_cell(nb0.cells[k])]
        v     == nb0.version
    IN  IF Len(v) = 0 THEN Raise("IndexError")
        ELSE LET first == int(<<v[1]>>)
                 last  == int(<<v[Len(v)]>>)
             IN  IF first.exc # "none" THEN Raise(first.exc)
                 ELSE IF last.exc # "none" THEN Raise(last.exc)
                 ELSE Return([cells |-> cells, metadata |-> EmptyDict,
                              nbformat |-> JInt(first.val[1]),
                              nbformat_minor |-> JInt(last.val[1])])

\* notebook_v0.to_percent: one block per cell, a blank line between blocks
to_percent_block(cell) ==
    IF cell.cell_type = "markdown"
    THEN "# %% [markdown]\n"
         \o Concat([k \in 1..Len(cell.source) |-> "# " \o cell.source[k]])
    ELSE "# %%\n" \o Concat(cell.source)

to_percent(d) ==
    Concat([k \in 1..Len(d.cells) |->
              (IF k = 1 THEN "" ELSE "\n\n") \o to_percent_block(d.cells[k])])

\* PyPercentSerializer.to_py_percent
to_py_percent(nb0) ==
    LET d == to_py_percent_dict(nb0)
    IN  IF d.exc # "none" THEN Raise(d.exc) ELSE Return(to_percent(d.val[1]))

----------------------------------------------------------------------------
(* Outliner                                                                *)

BoxUpRight   == "{U+2514}"
BoxHorizon   == "{U+2500}"
BoxArrow     == "{U+25B6}"
BoxDownRight == "{U+250C}"

\* the first line Outliner.outline writes
outline_title(notebook) ==
    "Jupyter notebook v" \o Concat(notebook.version) \o "\n"

\* the name Outliner.outline gives to the kind of a cell
outline_kind(cell) ==
    IF cell.class = "CodeCell" THEN "Code Cell" ELSE "Markdown Cell"

\* the header line of a cell
outline_header(cell) ==
    BoxUpRight \o BoxHorizon \o BoxArrow \o " " \o outline_kind(cell)
        \o " #" \o cell.id \o "\n"

\* the border drawn before source line k (from 0) of number_lines lines:
\* <<indentation, glyph, gap, what follows the line>>
outline_border(k, number_lines) ==
    IF k = 0 /\ number_lines # 1 THEN <<"    ", BoxDownRight, "  ", "">>
    ELSE IF k = number_lines - 1 /\ number_lines # 1
         THEN <<"   ", BoxUpRight, "  ", " ">>
         ELSE <<"    ", "|", "  ", " ">>

outline_line(source, k) ==
    LET b == outline_border(k, Len(source))
    IN  b[1] \o b[2] \o b[3] \o source[k + 1] \o b[4]
        \o (IF k = Len(source) - 1 THEN "\n" ELSE "")

outline_cell(cell) ==
    outline_header(cell)
        \o Concat([j \in 1..Len(cell.source) |-> outline_line(cell.source, j - 1)])

\* Outliner.outline
outline(notebook) ==
    outline_title(notebook)
        \o Concat([k \in 1..Len(notebook.cells) |-> outline_cell(notebook.cells[k])])

----------------------------------------------------------------------------
(* The client                                                              *)

Init ==
    /\ ipynb \in RawNotebooks \cup {HelloWorld}
    /\ fs = [p \in Paths |-> IF p = InPath THEN <<ipynb>> ELSE << >>]
    /\ nb = << >>
    /\ op = "init"
    /\ path = NoPath
    /\ exc = "none"
    /\ iterated = << >>
    /\ ser = << >>
    /\ nb2 = << >>
    /\ ppArg = << >>
    /\ text = << >>

\* nb = Notebook(ipynb)
NewNotebook ==
    /\ op = "init"
    /\ LET r == Notebook(ipynb)
       IN  /\ nb' = r.val
           /\ exc' = r.exc
    /\ op' = "loaded"
    /\ UNCHANGED <<ipynb, fs, path, iterated, ser, nb2, ppArg, text>>

\* nb = Notebook.from_file(p)
FromFile(p) ==
    /\ op = "init"
    /\ LET r == from_file(fs, p)
       IN  /\ nb' = r.val
           /\ exc' = r.exc
    /\ op' = "loaded"
    /\ path' = p
    /\ UNCHANGED <<ipynb, fs, iterated, ser, nb2, ppArg, text>>

\* for cell in nb: ...
Iterate ==
    /\ op = "loaded" /\ nb # << >>
    /\ iterated' = iter(nb[1])
    /\ op' = "iter"
    /\ UNCHANGED <<ipynb, fs, nb, path, exc, ser, nb2, ppArg, text>>

\* ser = Serializer(nb).serialize()
Serialize ==
    /\ op = "loaded" /\ nb # << >>
    /\ LET r == serialize(nb[1])
       IN  /\ ser' = r.val
           /\ exc' = r.exc
    /\ op' = "serialize"
    /\ UNCHANGED <<ipynb, fs, nb, path, iterated, nb2, ppArg, text>>

\* nb2 = Notebook(ser)
Reload ==
    /\ op = "serialize" /\ ser # << >>
    /\ LET r == Notebook(ser[1])
       IN  /\ nb2' = r.val
           /\ exc' = r.exc
    /\ op' = "reload"
    /\ UNCHANGED <<ipynb, fs, nb, path, iterated, ser, ppArg, text>>

\* Serializer(nb).to_file(p)
ToFile(p) ==
    /\ op = "loaded" /\ nb # << >>
    /\ LET r == to_file(fs, nb[1], p)
       IN  /\ fs' = r.files
           /\ exc' = r.exc
    /\ op' = "to_file"
    /\ path' = p
    /\ UNCHANGED <<ipynb, nb, iterated, ser, nb2, ppArg, text>>

\* nb2 = Notebook.from_file(path), after Serializer(nb).to_file(path)
ReadBack ==
    /\ op = "to_file" /\ exc = "none"
    /\ LET r == from_file(fs, path)
       IN  /\ nb2' = r.val
           /\ exc' = r.exc
    /\ op' = "read_back"
    /\ UNCHANGED <<ipynb, fs, nb, path, iterated, ser, ppArg, text>>

\* text = PyPercentSerializer(nb).to_py_percent()
ToPyPercent ==
    /\ op = "loaded" /\ nb # << >>
    /\ LET d == to_py_percent_dict(nb[1])
           r == to_py_percent(nb[1])
       IN  /\ ppArg' = d.val
           /\ text' = r.val
           /\ exc' = r.exc
    /\ op' = "to_py_percent"
    /\ UNCHANGED <<ipynb, fs, nb, path, iterated, ser, nb2>>

\* text = Outliner(nb).outline()
Outline ==
    /\ op = "loaded" /\ nb # << >>
    /\ text' = <<outline(nb[1])>>
    /\ op' = "outline"
    /\ UNCHANGED <<ipynb, fs, nb, path, exc, iterated, ser, nb2, ppArg>>

Next ==
    \/ NewNotebook
    \/ \E p \in Paths : FromFile(p)
    \/ Iterate
    \/ Serialize
    \/ Reload
    \/ \E p \in Paths : ToFile(p)
    \/ ReadBack
    \/ ToPyPercent
    \/ Outline

Spec == Init /\ [][Next]_vars

----------------------------------------------------------------------------
(* Vocabulary of the properties                                            *)

\* the raw dict the last load read: the client's dict or the file's content
LoadedRaw == IF path = NoPath THEN <<ipynb>> ELSE fs[path]

HasType(c, t) == "cell_type" \in DOMAIN c /\ c["cell_type"] = t

IsKnownType(c) == HasType(c, "code") \/ HasType(c, "markdown")

\* a code or markdown cell dict that lacks a field its class reads
Incomplete(c) ==
    \/ IsKnownType(c) /\ ~({"id", "source"} \subseteq DOMAIN c)
    \/ HasType(c, "code") /\ "execution_count" \notin DOMAIN c

ClassOf(c) == IF HasType(c, "code") THEN "CodeCell" ELSE "MarkdownCell"

IsInt(v) == v.tag = "int"

\* nbformat and nbformat_minor are non-negative integers
ValidVersion(d) ==
    /\ IsInt(d.nbformat) /\ d.nbformat.n >= 0
    /\ IsInt(d.nbformat_minor) /\ d.nbformat_minor.n >= 0

\* v.split('.')
RECURSIVE Split(_)
Split(v) ==
    IF \A i \in 1..Len(v) : v[i] # "." THEN <<v>>
    ELSE LET i == CHOOSE j \in 1..Len(v) :
                    v[j] = "." /\ \A h \in 1..(j - 1) : v[h] # "."
         IN  <<SubSeq(v, 1, i - 1)>> \o Split(SubSeq(v, i + 1, Len(v)))

\* the version is two dot-separated integers
WellFormedVersion(v) ==
    /\ Len(Split(v)) = 2
    /\ int(Split(v)[1]).exc = "none"
    /\ int(Split(v)[2]).exc = "none"

----------------------------------------------------------------------------
(* C1 *)

\* C1: round trip. For a raw dict whose nbformat and nbformat_minor are
\* integers, the Notebook built from the serialized Notebook exists and has
\* the version and the cells of the Notebook that was serialized.
C1_RoundTrip ==
    (op = "reload" /\ IsInt(ipynb.nbformat) /\ IsInt(ipynb.nbformat_minor))
        => /\ nb2 # << >>
           /\ nb2[1].version = nb[1].version
           /\ nb2[1].cells = nb[1].cells

----------------------------------------------------------------------------
(* C2 *)

\* C2: serialize emits an empty top-level metadata, and for a version
\* "<major>.<minor>" of two non-negative integers nbformat is the integer
\* value of the whole first component and nbformat_minor that of the whole
\* last component.
C2_VersionComponents ==
    (/\ op = "serialize"
     /\ WellFormedVersion(nb[1].version)
     /\ int(Split(nb[1].version)[1]).val[1] >= 0
     /\ int(Split(nb[1].version)[2]).val[1] >= 0)
        => /\ ser # << >>
           /\ ser[1].metadata = EmptyDict
           /\ ser[1].nbformat = JInt(int(Split(nb[1].version)[1]).val[1])
           /\ ser[1].nbformat_minor = JInt(int(Split(nb[1].version)[2]).val[1])

----------------------------------------------------------------------------
(* C3 *)

\* C3: after Serializer.to_file(path) the file at path holds the serialized
\* notebook, and reading it back yields the same cell ids in the same order.
C3_ToFileWrites ==
    /\ (op = "to_file" /\ ValidVersion(ipynb))
          => /\ serialize(nb[1]).exc = "none"
             /\ fs[path] = serialize(nb[1]).val
    /\ (op = "read_back" /\ ValidVersion(ipynb))
          => /\ nb2 # << >>
             /\ Len(nb2[1].cells) = Len(nb[1].cells)
             /\ \A k \in 1..Len(nb[1].cells) :
                    nb2[1].cells[k].id = nb[1].cells[k].id

----------------------------------------------------------------------------
(* C4 *)

\* C4: when some code or markdown cell dict, at any position, lacks id or
\* source, or a code cell dict lacks execution_count, loading raises the
\* missing-field error (KeyError) and yields no Notebook.
C4_MissingFieldFails ==
    (/\ op = "loaded"
     /\ LoadedRaw # << >>
     /\ \E k \in 1..Len(LoadedRaw[1].cells) : Incomplete(LoadedRaw[1].cells[k]))
        => exc = "KeyError" /\ nb = << >>

\* a load that failed on an incomplete cell that follows a complete one
C4_Witness ==
    /\ op = "loaded" /\ exc = "KeyError" /\ nb = << >>
    /\ LoadedRaw # << >>
    /\ Len(LoadedRaw[1].cells) = 2
    /\ IsKnownType(LoadedRaw[1].cells[1]) /\ ~Incomplete(LoadedRaw[1].cells[1])
    /\ HasType(LoadedRaw[1].cells[2], "code")
    /\ "execution_count" \notin DOMAIN LoadedRaw[1].cells[2]

----------------------------------------------------------------------------
(* C5 *)

\* C5: serialize raises, and returns no dict, whenever the version is not
\* exactly two dot-separated integer components.
C5_MalformedVersionFails ==
    (op = "serialize" /\ ~WellFormedVersion(nb[1].version))
        => exc # "none" /\ ser = << >>

----------------------------------------------------------------------------
(* C6 *)

ClaimedKind(cell) ==
    IF cell.class = "CodeCell" THEN "Code cell" ELSE "Markdown cell"

ClaimedGlyph(k, number_lines) ==
    IF number_lines = 1 THEN "|"
    ELSE IF k = 0 THEN BoxDownRight
    ELSE IF k = number_lines - 1 THEN BoxUpRight
    ELSE "|"

\* the outline the claim describes, laid out with the white space of
\* outline_border, so that only the words and the glyphs are compared
ClaimedLine(source, k) ==
    LET b == outline_border(k, Len(source))
    IN  b[1] \o ClaimedGlyph(k, Len(source)) \o b[3] \o source[k + 1] \o b[4]
        \o (IF k = Len(source) - 1 THEN "\n" ELSE "")

ClaimedCell(cell) ==
    BoxUpRight \o BoxHorizon \o BoxArrow \o " " \o ClaimedKind(cell)
        \o " #" \o cell.id \o "\n"
        \o Concat([j \in 1..Len(cell.source) |-> ClaimedLine(cell.source, j - 1)])

ClaimedOutline(notebook) ==
    "Jupyter Notebook v" \o Concat(notebook.version) \o "\n"
        \o Concat([k \in 1..Len(notebook.cells) |-> ClaimedCell(notebook.cells[k])])

\* C6: outline returns the line "Jupyter Notebook v{version}", then for each
\* cell in order the header "Code cell #{id}" or "Markdown cell #{id}" after
\* the arrow, then its source lines, each behind its border glyph.
C6_OutlineText ==
    (op = "outline" /\ ValidVersion(ipynb)) => text = <<ClaimedOutline(nb[1])>>

----------------------------------------------------------------------------
(* C7 *)

\* the code and markdown cell dicts of a raw dict, in their order
KnownCells(d) == SelectSeq(d.cells, IsKnownType)

\* C7: type dispatch on load. Every raw code cell becomes a CodeCell with
\* the raw id, source and execution_count; every raw markdown cell becomes a
\* MarkdownCell with the raw id and source and no execution_count; no cell
\* object has a metadata or outputs attribute.
C7_TypeDispatch ==
    (op = "loaded" /\ nb # << >>)
        => LET kept == KnownCells(LoadedRaw[1])
               objs == nb[1].cells
           IN  /\ Len(objs) = Len(kept)
               /\ \A k \in 1..Len(kept) :
                    /\ HasType(kept[k], "code") =>
                         /\ objs[k].class = "CodeCell"
                         /\ DOMAIN objs[k] = {"class", "id", "source", "execution_count"}
                         /\ objs[k].id = kept[k]["id"]
                         /\ objs[k].source = kept[k]["source"]
                         /\ objs[k].execution_count = kept[k]["execution_count"]
                    /\ HasType(kept[k], "markdown") =>
                         /\ objs[k].class = "MarkdownCell"
                         /\ DOMAIN objs[k] = {"class", "id", "source"}
                         /\ objs[k].id = kept[k]["id"]
                         /\ objs[k].source = kept[k]["source"]

\* a loaded notebook with a markdown cell whose dict carried execution_count,
\* metadata and outputs, followed by a code cell
C7_Witness ==
    /\ op = "loaded" /\ nb # << >>
    /\ Len(LoadedRaw[1].cells) = 2
    /\ HasType(LoadedRaw[1].cells[1], "markdown")
    /\ {"execution_count", "metadata", "outputs"} \subseteq DOMAIN LoadedRaw[1].cells[1]
    /\ HasType(LoadedRaw[1].cells[2], "code")
    /\ Len(nb[1].cells) = 2

----------------------------------------------------------------------------
(* C8 *)

\* every cell dict is a code or markdown cell with the fields its class reads
AllKnownComplete(d) ==
    \A k \in 1..Len(d.cells) : IsKnownType(d.cells[k]) /\ ~Incomplete(d.cells[k])

\* C8: order preservation. For a raw dict whose cells are all code or
\* markdown cells, loading succeeds, iterating the Notebook yields one cell
\* per raw cell in the raw order, and the cells list serialize returns has
\* the length of the raw list and the raw id at every index.
C8_OrderPreserved ==
    AllKnownComplete(ipynb) =>
        /\ (op = "loaded" /\ path # OutPath) => (exc = "none" /\ nb # << >>)
        /\ op = "iter" =>
             /\ Len(iterated) = Len(ipynb.cells)
             /\ \A k \in 1..Len(iterated) :
                    /\ iterated[k].id = ipynb.cells[k]["id"]
                    /\ iterated[k].class = ClassOf(ipynb.cells[k])
        /\ (op = "serialize" /\ ValidVersion(ipynb)) => ser # << >>
        /\ (op = "serialize" /\ ser # << >>) =>
             /\ Len(ser[1].cells) = Len(ipynb.cells)
             /\ \A k \in 1..Len(ipynb.cells) :
                    ser[1].cells[k].id = ipynb.cells[k]["id"]

\* a serialized notebook of two cells with different ids
C8_Witness ==
    /\ op = "serialize" /\ ser # << >>
    /\ AllKnownComplete(ipynb)
    /\ Len(ipynb.cells) = 2
    /\ ipynb.cells[1]["id"] = "b" /\ ipynb.cells[2]["id"] = "a"
    /\ ser[1].cells[1].id = "b" /\ ser[1].cells[2].id = "a"

----------------------------------------------------------------------------
(* C9 *)

\* C9: a cell dict whose cell_type is neither code nor markdown is skipped.
\* When every cell dict has a cell_type and every code or markdown cell is
\* complete, loading succeeds whatever the other cells lack, and the cells
\* of the Notebook are the code and markdown cells in their relative order.
C9_UnknownTypeSkipped ==
    (/\ op = "loaded"
     /\ LoadedRaw # << >>
     /\ \A k \in 1..Len(LoadedRaw[1].cells) :
            /\ "cell_type" \in DOMAIN LoadedRaw[1].cells[k]
            /\ ~Incomplete(LoadedRaw[1].cells[k]))
        => /\ exc = "none"
           /\ nb # << >>
           /\ Len(nb[1].cells) = Len(KnownCells(LoadedRaw[1]))
           /\ \A k \in 1..Len(nb[1].cells) :
                /\ nb[1].cells[k].id = KnownCells(LoadedRaw[1])[k]["id"]
                /\ nb[1].cells[k].class = ClassOf(KnownCells(LoadedRaw[1])[k])

\* a notebook loaded from a cell of another type that lacks its id, followed
\* by a code cell: one cell was kept
C9_Witness ==
    /\ op = "loaded" /\ exc = "none" /\ nb # << >>
    /\ Len(LoadedRaw[1].cells) = 2
    /\ HasType(LoadedRaw[1].cells[1], "raw")
    /\ "id" \notin DOMAIN LoadedRaw[1].cells[1]
    /\ HasType(LoadedRaw[1].cells[2], "code")
    /\ Len(nb[1].cells) = 1
    /\ nb[1].cells[1].class = "CodeCell"

----------------------------------------------------------------------------
(* C10 *)

\* C10: the dict to_py_percent hands to to_percent is the dict serialize
\* returns for the same Notebook, and to_py_percent raises exactly when
\* serialize raises.
C10_SameDict ==
    op = "to_py_percent" =>
        /\ (exc = "none") <=> (serialize(nb[1]).exc = "none")
        /\ ppArg = serialize(nb[1]).val
        /\ (exc = "none") <=> (text # << >>)

\* to_py_percent returned for a notebook of a markdown and a code cell
C10_Witness ==
    /\ op = "to_py_percent" /\ exc = "none" /\ ppArg # << >>
    /\ Len(ppArg[1].cells) = 2
    /\ ppArg[1].cells[1].cell_type = "markdown"
    /\ ppArg[1].cells[2].cell_type = "code"

============================================================================
